---- MODULE Spec2Model ----
(***************************************************************************)
(* Student Grievance Redressal System: the analytics core                  *)
(* (analytics/analyzer.py, GrievanceAnalyzer over the grievances JSON      *)
(* file), the Grievance record life cycle (models/grievance.py,            *)
(* models/record.py), and the grievance store under its handlers           *)
(* (file_handler.py, student.py, admin.py, app.py).                        *)
(*                                                                         *)
(* Time.  An in-memory datetime is a number of clock ticks, TicksPerSec    *)
(* ticks to the second (the sub-second part of datetime.now()).  A         *)
(* timestamp string "YYYY-MM-DD HH:MM:SS" is the whole second it names     *)
(* and "YYYY-MM-DD" the day it names, both counted from                    *)
(* 2026-01-01 00:00:00; the calendar of 2026 maps days to months.          *)
(***************************************************************************)
EXTENDS Integers, Sequences, FiniteSets, TLC

VARIABLES
    fileState,  \* data/grievances.json on disk: "json", "missing" or "invalid"
    file,       \* its content as the analyzer finds it: a sequence of dicts
    stableSort, \* whether this build's sort keeps equal counts in their order
    analyzer,   \* "none" before GrievanceAnalyzer(), "ok" once constructed,
                \* "raised" when the constructor let an exception out
    df,         \* GrievanceAnalyzer.df: the loaded table, a sequence of rows
    seen,       \* a result some earlier call on this analyzer returned
    clock,      \* datetime.now(), in ticks
    reports,    \* the texts generate_report() has returned, oldest first
    obj,        \* the Grievance object in memory (NoObj before construction)
    stored,     \* the dict last written for that grievance (NoDict before)
    store,      \* data/grievances.json as the application keeps it: the dicts
                \* of the submitted grievances, oldest first
    request,    \* the analytics request being served (Idle when there is none)
    csv,        \* data/grievances.csv: the rows under the header, oldest first
    faults,     \* save_grievances calls in which a file write may still fail
    last,       \* the last call of a Grievance method or of a view: its name,
                \* its argument and what it returned
    issued,     \* the grievance ids students have been told so far
    procs,      \* the submissions in progress, each at its own step
    users       \* the student ids that are logged in

vars == <<fileState, file, stableSort, analyzer, df, seen, clock, reports, obj,
          stored, store, request, csv, faults, last, issued, procs, users>>

-----------------------------------------------------------------------------
(* Bounds *)

MaxRecords == 2     \* records in the data file
MaxClock == 3       \* last clock tick
TicksPerSec == 2    \* clock ticks in one second
MaxReports == 2     \* generate_report() calls that are recorded

SecondsPerDay == 24 * 3600

-----------------------------------------------------------------------------
(* Timestamp strings and parsed timestamps *)

Absent == [kind |-> "absent", val |-> 0]          \* key missing from the dict
Empty == [kind |-> "empty", val |-> 0]            \* ""
Bad == [kind |-> "bad", val |-> 0]                \* "bad-date"
Full(sec) == [kind |-> "full", val |-> sec]       \* "YYYY-MM-DD HH:MM:SS"
DateOnly(day) == [kind |-> "date", val |-> day]   \* "YYYY-MM-DD"

NaT == [kind |-> "nat", val |-> 0]                \* pandas NaT
Ts(sec) == [kind |-> "ts", val |-> sec]           \* pandas Timestamp, in seconds

\* Days of 2026 before the first of each month.
DaysBefore == <<0, 31, 59, 90, 120, 151, 181, 212, 243, 273, 304, 334>>

\* dt.to_period('M') of a Timestamp: its calendar month, printed "2026-MM".
MonthOf(sec) ==
    LET d == sec \div SecondsPerDay
    IN  CHOOSE m \in 1..12 :
            /\ DaysBefore[m] <= d
            /\ (m = 12 \/ d < DaysBefore[m + 1])

\* pd.to_datetime of one cell that does not raise.
ParseCell(raw) ==
    CASE raw.kind = "full" -> Ts(raw.val)
      [] raw.kind = "date" -> Ts(raw.val * SecondsPerDay)
      [] raw.kind \in {"ts", "nat"} -> raw
      [] OTHER -> NaT

\* pd.to_datetime(column) raises (errors='raise' is the default) on a string
\* that is no date.  A column mixing the two formats is parsed element by
\* element by pandas 1.x and rejected by pandas 2.x, which holds every
\* element to the format of the first: strictFormat says which is installed.
ToDatetimeRaises(cells, strictFormat) ==
    \/ \E i \in DOMAIN cells : cells[i].kind = "bad"
    \/ /\ strictFormat
       /\ \E i \in DOMAIN cells : cells[i].kind = "full"
       /\ \E i \in DOMAIN cells : cells[i].kind = "date"

-----------------------------------------------------------------------------
(* The data file *)

Categories == {"Academic", "Hostel"}
Statuses == {"Pending", "Resolved"}

\* created_at: missing or "", "bad-date", "2026-01-10 09:00:00", "2026-02-10".
\* A key that only some dicts carry is NaN in the DataFrame column and parses
\* like "": Empty stands for both.
CreatedValues == {Empty, Bad, Full(9 * SecondsPerDay + 9 * 3600), DateOnly(40)}

\* resolved_at: key missing, "", "bad-date", "2026-02-15 08:00:00".
ResolvedValues == {Absent, Empty, Bad, Full(45 * SecondsPerDay + 8 * 3600)}

\* The dicts of the file.  get_average_resolution_time is the one reader of
\* resolved_at and drops every row that is not Resolved before it reads it,
\* so the other rows carry the "" that submission writes.
Records ==
    { r \in [category : Categories, status : Statuses,
             created_at : CreatedValues, resolved_at : ResolvedValues] :
        r.status # "Resolved" => r.resolved_at = Empty }

Files == UNION { [1..n -> Records] : n \in 0..MaxRecords }

Column(rows, f) == [i \in DOMAIN rows |-> rows[i][f]]

\* 'resolved_at' in df.columns: pd.DataFrame(list of dicts) has a column for
\* every key some dict carries.
HasResolvedColumn(rows) == \E i \in DOMAIN rows : rows[i].resolved_at.kind # "absent"

-----------------------------------------------------------------------------
(* GrievanceAnalyzer._load_data *)

\* The exception that escapes _load_data: only FileNotFoundError and
\* json.JSONDecodeError are caught.
LoadRaises(data, strictFormat) ==
    data # <<>> /\ ToDatetimeRaises(Column(data, "created_at"), strictFormat)

\* self.df after a load that did not raise: pd.DataFrame() for an empty list,
\* else the dicts with the created_at column converted.
LoadedTable(data) ==
    [i \in DOMAIN data |-> [data[i] EXCEPT !.created_at = ParseCell(@)]]

-----------------------------------------------------------------------------
(* Aggregations over the loaded table d = self.df.  pandas is installed, so  *)
(* self.df is never None once the constructor returned; df.empty is d = <<>>. *)

RECURSIVE SumOver(_, _)
SumOver(f, keys) ==
    IF keys = {} THEN 0
    ELSE LET k == CHOOSE x \in keys : TRUE
         IN  f[k] + SumOver(f, keys \ {k})

\* sum(mapping.values())
SumValues(f) == SumOver(f, DOMAIN f)

Num(n, m) == [kind |-> "num", num |-> n, den |-> m]    \* the float n / m
NaN == [kind |-> "nan", num |-> 0, den |-> 1]
Raised == [kind |-> "raise", num |-> 0, den |-> 1]     \* the call raised

get_total_grievances(d) ==
    IF d = <<>> THEN 0 ELSE Len(d)

\* groupby('status')['created_at'].count() in place of .size(): a count of the
\* non-null cells, which leaves the undated rows out.
get_status_counts_of_dated(d) ==
    IF d = <<>> THEN <<>>
    ELSE [s \in {d[i].status : i \in DOMAIN d} |->
            Cardinality({i \in DOMAIN d : /\ d[i].status = s
                                         /\ d[i].created_at.kind = "ts"})]

get_status_counts(d) ==
    IF d = <<>> THEN <<>>
    ELSE [s \in {d[i].status : i \in DOMAIN d} |->
            Cardinality({i \in DOMAIN d : d[i].status = s})]

get_category_counts(d) ==
    IF d = <<>> THEN <<>>
    ELSE [c \in {d[i].category : i \in DOMAIN d} |->
            Cardinality({i \in DOMAIN d : d[i].category = c})]

\* groupby(..., dropna=False): the undated rows are counted too, under the
\* key NaT (month 0).
get_monthly_trend_keeping_undated(d) ==
    IF d = <<>> THEN <<>>
    ELSE LET Key(i) == IF d[i].created_at.kind = "ts"
                       THEN MonthOf(d[i].created_at.val) ELSE 0
         IN  [m \in {Key(i) : i \in DOMAIN d} |->
                Cardinality({i \in DOMAIN d : Key(i) = m})]

\* groupby on the month of created_at: NaT keys are dropped, the keys are the
\* months that occur.
get_monthly_trend(d) ==
    IF d = <<>> THEN <<>>
    ELSE LET dated == {i \in DOMAIN d : d[i].created_at.kind = "ts"}
         IN  [m \in {MonthOf(d[i].created_at.val) : i \in dated} |->
                Cardinality({i \in dated : MonthOf(d[i].created_at.val) = m})]

\* The rate with neither the df.empty return nor the total > 0 test.
get_resolution_rate_unguarded(d) ==
    IF Len(d) = 0 THEN Raised
    ELSE Num(Cardinality({i \in DOMAIN d : d[i].status = "Resolved"}) * 100, Len(d))

get_resolution_rate(d) ==
    IF d = <<>> THEN Num(0, 1)
    ELSE LET resolved == Cardinality({i \in DOMAIN d : d[i].status = "Resolved"})
             total == Len(d)
         IN  IF total > 0 THEN Num(resolved * 100, total) ELSE Num(0, 1)

get_pending_count(d) ==
    IF d = <<>> THEN 0
    ELSE Cardinality({i \in DOMAIN d : d[i].status = "Pending"})

NoMatrix == [none |-> TRUE]     \* get_category_status_matrix() returning None

\* groupby(['category', 'status']).size(): a cell only for a pair some row
\* has.
get_category_status_matrix_sparse(d) ==
    IF d = <<>> THEN NoMatrix
    ELSE [p \in {<<d[i].category, d[i].status>> : i \in DOMAIN d} |->
            Cardinality({i \in DOMAIN d : d[i].category = p[1] /\ d[i].status = p[2]})]

\* A cross-tabulation that looks only at the rows with a creation date.
get_category_status_matrix_of_dated(d) ==
    IF d = <<>> THEN NoMatrix
    ELSE [p \in {d[i].category : i \in DOMAIN d} \X {d[i].status : i \in DOMAIN d} |->
            Cardinality({i \in DOMAIN d : /\ d[i].category = p[1]
                                         /\ d[i].status = p[2]
                                         /\ d[i].created_at.kind = "ts"})]

\* pd.crosstab: rows are the categories that occur, columns the statuses that
\* occur, each cell a count, 0 where the pair does not occur.
get_category_status_matrix(d) ==
    IF d = <<>> THEN NoMatrix
    ELSE [p \in {d[i].category : i \in DOMAIN d} \X {d[i].status : i \in DOMAIN d} |->
            Cardinality({i \in DOMAIN d : d[i].category = p[1] /\ d[i].status = p[2]})]

\* The row of d where category c is first seen.
FirstSeen(d, c) == CHOOSE i \in DOMAIN d :
    d[i].category = c /\ \A j \in 1..(i - 1) : d[j].category # c

Min(a, b) == IF a < b THEN a ELSE b

\* Two categories of the data occur equally often.
HasTie(data) ==
    \E i, j \in DOMAIN data :
        /\ data[i].category # data[j].category
        /\ Cardinality({k \in DOMAIN data : data[k].category = data[i].category})
             = Cardinality({k \in DOMAIN data : data[k].category = data[j].category})

\* value_counts(sort=False).head(n): the categories as they first appear.
get_top_categories_unsorted(d, n, stable) ==
    IF d = <<>> THEN <<>>
    ELSE LET counts == get_category_counts(d)
             Rank(c) == 1 + Cardinality({a \in DOMAIN counts :
                                            FirstSeen(d, a) < FirstSeen(d, c)})
         IN  [k \in 1..Min(n, Cardinality(DOMAIN counts)) |->
                LET c == CHOOSE x \in DOMAIN counts : Rank(x) = k
                IN  <<c, counts[c]>>]

\* value_counts().head(n): the categories by falling count.  value_counts
\* collects the categories in the order of first appearance and sorts them
\* with sort_values(ascending=False), whose default kind='quicksort' is not
\* a stable sort: where the installed numpy sorts small arrays by insertion
\* equal counts stay in first-seen order (stable), where it sorts them with a
\* vectorised network they need not.
get_top_categories(d, n, stable) ==
    IF d = <<>> THEN <<>>
    ELSE LET counts == get_category_counts(d)
             Before(a, b) ==
                \/ counts[a] > counts[b]
                \/ /\ counts[a] = counts[b]
                   /\ IF stable THEN FirstSeen(d, a) < FirstSeen(d, b)
                                ELSE FirstSeen(d, a) > FirstSeen(d, b)
             Rank(c) == 1 + Cardinality({a \in DOMAIN counts : Before(a, c)})
         IN  [k \in 1..Min(n, Cardinality(DOMAIN counts)) |->
                LET c == CHOOSE x \in DOMAIN counts : Rank(x) = k
                IN  <<c, counts[c]>>]

\* (resolved_at - created_at).dt.days of one row: the whole days of the
\* difference, NaN when either side is NaT.
ResolutionDays(row) ==
    LET r == ParseCell(row.resolved_at)
        c == row.created_at
    IN  IF r.kind = "ts" /\ c.kind = "ts"
        THEN Num((r.val - c.val) \div SecondsPerDay, 1)
        ELSE NaN

RECURSIVE SumDays(_)
SumDays(rows) ==
    IF rows = <<>> THEN 0 ELSE ResolutionDays(Head(rows)).num + SumDays(Tail(rows))

\* The average without the df.empty return: self.df['status'] on the
\* column-less pd.DataFrame() raises KeyError.
get_average_resolution_time_unguarded(d, strictFormat) ==
    IF d = <<>> THEN Raised
    ELSE LET resolved == SelectSeq(d, LAMBDA r : r.status = "Resolved")
         IN  IF resolved = <<>> \/ ~HasResolvedColumn(d) THEN Num(0, 1)
             ELSE IF ToDatetimeRaises(Column(resolved, "resolved_at"), strictFormat)
                  THEN Raised
             ELSE LET valid == SelectSeq(resolved,
                                   LAMBDA r : ResolutionDays(r).kind = "num")
                  IN  IF valid = <<>> THEN NaN
                      ELSE Num(SumDays(valid), Len(valid))

\* Series.mean() skips NaN and is NaN when nothing is left.
get_average_resolution_time(d, strictFormat) ==
    IF d = <<>> THEN Num(0, 1)
    ELSE LET resolved == SelectSeq(d, LAMBDA r : r.status = "Resolved")
         IN  IF resolved = <<>> \/ ~HasResolvedColumn(d) THEN Num(0, 1)
             ELSE IF ToDatetimeRaises(Column(resolved, "resolved_at"), strictFormat)
                  THEN Raised
             ELSE LET valid == SelectSeq(resolved,
                                   LAMBDA r : ResolutionDays(r).kind = "num")
                  IN  IF valid = <<>> THEN NaN
                      ELSE Num(SumDays(valid), Len(valid))

\* round(x, 2) of the float num / den, in hundredths; Python rounds a tie to
\* the even neighbour.
Round2(x) ==
    LET p == x.num * 100
        f == p \div x.den
        r == p % x.den
    IN  IF 2 * r < x.den THEN f
        ELSE IF 2 * r > x.den THEN f + 1
        ELSE IF f % 2 = 0 THEN f ELSE f + 1

TopN == 3       \* get_summary_statistics asks for the top 3 categories

get_summary_statistics(d, stable) ==
    [total_grievances |-> get_total_grievances(d),
     pending_count |-> get_pending_count(d),
     resolution_rate |-> Round2(get_resolution_rate(d)),
     status_breakdown |-> get_status_counts(d),
     category_breakdown |-> get_category_counts(d),
     top_categories |-> get_top_categories(d, TopN, stable),
     monthly_trend |-> get_monthly_trend(d)]

-----------------------------------------------------------------------------
(* GrievanceAnalyzer.generate_report *)

Line(text, key, n) == [text |-> text, key |-> key, n |-> n]
Rule == Line("============================================================", "", 0)

\* The keys of a groupby(...).size().to_dict(): groupby sorts them.
SortedStatuses == <<"Pending", "Resolved">>
SortedCategories == <<"Academic", "Hostel">>

KeysInOrder(f, order) == SelectSeq(order, LAMBDA k : k \in DOMAIN f)

\* datetime.strftime("%Y-%m-%d %H:%M:%S"): the whole second of a datetime.
strftime(t) == t \div TicksPerSec

\* A report that leaves out a breakdown that has nothing to list.
generate_report_skipping_empty(d, now, stable) ==
    LET stats == get_summary_statistics(d, stable)
        sk == KeysInOrder(stats.status_breakdown, SortedStatuses)
        ck == KeysInOrder(stats.category_breakdown, SortedCategories)
    IN  << Rule,
           Line("       GRIEVANCE ANALYTICS REPORT", "", 0),
           Rule,
           Line("\nGenerated: ", "", strftime(now)),
           Line("\n--- OVERVIEW ---", "", 0),
           Line("Total Grievances: ", "", stats.total_grievances),
           Line("Pending: ", "", stats.pending_count),
           Line("Resolution Rate: %", "", stats.resolution_rate) >>
        \o (IF sk = <<>> THEN <<>> ELSE << Line("\n--- STATUS BREAKDOWN ---", "", 0) >>)
        \o [i \in DOMAIN sk |-> Line("  : ", sk[i], stats.status_breakdown[sk[i]])]
        \o (IF ck = <<>> THEN <<>> ELSE << Line("\n--- CATEGORY BREAKDOWN ---", "", 0) >>)
        \o [i \in DOMAIN ck |-> Line("  : ", ck[i], stats.category_breakdown[ck[i]])]
        \o << Line("\n--- TOP CATEGORIES ---", "", 0) >>
        \o [i \in DOMAIN stats.top_categories |->
               Line("  . : ", stats.top_categories[i][1], stats.top_categories[i][2])]
        \o << Line("\n============================================================", "", 0) >>

\* The report's lines, joined by "\n" in the code.  now is datetime.now().
generate_report(d, now, stable) ==
    LET stats == get_summary_statistics(d, stable)
        sk == KeysInOrder(stats.status_breakdown, SortedStatuses)
        ck == KeysInOrder(stats.category_breakdown, SortedCategories)
    IN  << Rule,
           Line("       GRIEVANCE ANALYTICS REPORT", "", 0),
           Rule,
           Line("\nGenerated: ", "", strftime(now)),
           Line("\n--- OVERVIEW ---", "", 0),
           Line("Total Grievances: ", "", stats.total_grievances),
           Line("Pending: ", "", stats.pending_count),
           Line("Resolution Rate: %", "", stats.resolution_rate),
           Line("\n--- STATUS BREAKDOWN ---", "", 0) >>
        \o [i \in DOMAIN sk |-> Line("  : ", sk[i], stats.status_breakdown[sk[i]])]
        \o << Line("\n--- CATEGORY BREAKDOWN ---", "", 0) >>
        \o [i \in DOMAIN ck |-> Line("  : ", ck[i], stats.category_breakdown[ck[i]])]
        \o << Line("\n--- TOP CATEGORIES ---", "", 0) >>
        \o [i \in DOMAIN stats.top_categories |->
               Line("  . : ", stats.top_categories[i][1], stats.top_categories[i][2])]
        \o << Line("\n============================================================", "", 0) >>

-----------------------------------------------------------------------------
(* The analyzer as a state machine *)

NoCall == [op |-> "none", n |-> 0, result |-> 0]
NoObj == [state |-> "none"]
NoDict == [state |-> "none"]

Idle == [pc |-> "idle"]
NoLast == [op |-> "none", arg |-> 0, result |-> 0]

\* The file is a JSON list of dicts, or it is missing or holds no JSON.  The
\* build's sort shows only where two categories tie.
Init ==
    /\ \/ fileState = "json" /\ file \in Files
       \/ fileState \in {"missing", "invalid"} /\ file = <<>>
    /\ stableSort \in (IF HasTie(file) THEN BOOLEAN ELSE {TRUE})
    /\ analyzer = "none"
    /\ df = <<>>
    /\ seen = NoCall
    /\ clock = 0
    /\ reports = <<>>
    /\ obj = NoObj
    /\ stored = NoDict
    /\ store = <<>>
    /\ request = Idle
    /\ csv = <<>>
    /\ faults = 0
    /\ last = NoLast
    /\ issued = {}
    /\ procs = <<>>
    /\ users = {2}

\* GrievanceAnalyzer(): __init__ sets df = None and calls _load_data, whose
\* uncaught exception leaves the caller without an analyzer.  open() raising
\* FileNotFoundError and json.load() raising JSONDecodeError are caught and
\* leave pd.DataFrame().
Construct ==
    /\ analyzer = "none"
    /\ \E strictFormat \in BOOLEAN :
          IF fileState = "json" /\ LoadRaises(file, strictFormat)
          THEN analyzer' = "raised" /\ df' = df
          ELSE /\ analyzer' = "ok"
               /\ df' = IF fileState = "json" THEN LoadedTable(file) ELSE <<>>
    /\ UNCHANGED <<fileState, file, stableSort, seen, clock, reports, obj, stored, store, request, csv, faults, last, issued, procs, users>>

\* Which pandas is installed is not fixed by the repository: every call that
\* parses a column takes strictFormat from BOOLEAN.

\* A call returns result; the caller may keep it to compare with a later call.
Returns(op, n, result) ==
    \E keep \in BOOLEAN :
        seen' = IF keep THEN [op |-> op, n |-> n, result |-> result] ELSE seen

\* A method that assigns nothing: the analyzer is as it was.
Call(op, n, result) ==
    /\ analyzer = "ok"
    /\ Returns(op, n, result)
    /\ UNCHANGED <<fileState, file, stableSort, analyzer, df, clock, reports, obj, stored, store, request, csv, faults, last, issued, procs, users>>

GetTotalGrievances == Call("total", 0, get_total_grievances(df))
GetStatusCounts == Call("status", 0, get_status_counts(df))
GetCategoryCounts == Call("category", 0, get_category_counts(df))
GetMonthlyTrend == Call("monthly", 0, get_monthly_trend(df))
GetResolutionRate == Call("rate", 0, get_resolution_rate(df))
GetPendingCount == Call("pending", 0, get_pending_count(df))
GetCategoryStatusMatrix == Call("matrix", 0, get_category_status_matrix(df))
GetTopCategories == \E n \in 0..TopN : Call("top", n, get_top_categories(df, n, stableSort))
GetSummaryStatistics == Call("summary", 0, get_summary_statistics(df, stableSort))

\* resolved_at converted in self.df itself, the way _load_data converts
\* created_at, instead of in the copy.
GetAverageResolutionTimeInPlace ==
    /\ analyzer = "ok"
    /\ \E strictFormat \in BOOLEAN :
          LET result == get_average_resolution_time(df, strictFormat)
          IN  /\ Returns("average", 0, result)
              /\ df' = IF result.kind = "raise" THEN df
                       ELSE [i \in DOMAIN df |->
                               IF df[i].status = "Resolved" /\ HasResolvedColumn(df)
                               THEN [df[i] EXCEPT !.resolved_at = ParseCell(@)]
                               ELSE df[i]]
    /\ UNCHANGED <<fileState, file, stableSort, analyzer, clock, reports, obj, stored, store, request, csv, faults, last, issued, procs, users>>

\* get_average_resolution_time works on resolved, a .copy() of the Resolved
\* rows: the two columns it assigns are columns of the copy.
GetAverageResolutionTime ==
    /\ analyzer = "ok"
    /\ \E strictFormat \in BOOLEAN :
          Returns("average", 0, get_average_resolution_time(df, strictFormat))
    /\ df' = df
    /\ UNCHANGED <<fileState, file, stableSort, analyzer, clock, reports, obj, stored, store, request, csv, faults, last, issued, procs, users>>

Next ==
    \/ Construct
    \/ GetTotalGrievances
    \/ GetStatusCounts
    \/ GetCategoryCounts
    \/ GetMonthlyTrend
    \/ GetResolutionRate
    \/ GetPendingCount
    \/ GetCategoryStatusMatrix
    \/ GetTopCategories
    \/ GetAverageResolutionTime
    \/ GetSummaryStatistics

Spec == Init /\ [][Next]_vars

-----------------------------------------------------------------------------
(* The report formatter under a running clock *)

Tick ==
    /\ clock < MaxClock
    /\ clock' = clock + 1
    /\ UNCHANGED <<fileState, file, stableSort, analyzer, df, seen, reports, obj, stored, store, request, csv, faults, last, issued, procs, users>>

GenerateReport ==
    /\ analyzer = "ok"
    /\ Len(reports) < MaxReports
    /\ reports' = Append(reports, generate_report(df, clock, stableSort))
    /\ UNCHANGED <<fileState, file, stableSort, analyzer, df, seen, clock, obj, stored, store, request, csv, faults, last, issued, procs, users>>

NextReport == Construct \/ Tick \/ GenerateReport

SpecReport == Init /\ [][NextReport]_vars

-----------------------------------------------------------------------------
(* The counting aggregations over longer files: what they count is the       *)
(* category and the status of a record, so the records differ in those and  *)
(* carry the timestamps the application writes.                             *)

MaxCounted == 4     \* records in a file of counted records

CountedRecords ==
    { r \in Records :
        /\ r.created_at.kind = "full"
        /\ r.status = "Resolved" => r.resolved_at.kind = "full" }

CountedFiles == UNION { [1..n -> CountedRecords] : n \in 0..MaxCounted }

InitCounts ==
    /\ fileState = "json"
    /\ file \in CountedFiles
    /\ stableSort \in (IF HasTie(file) THEN BOOLEAN ELSE {TRUE})
    /\ analyzer = "none"
    /\ df = <<>>
    /\ seen = NoCall
    /\ clock = 0
    /\ reports = <<>>
    /\ obj = NoObj
    /\ stored = NoDict
    /\ store = <<>>
    /\ request = Idle
    /\ csv = <<>>
    /\ faults = 0
    /\ last = NoLast
    /\ issued = {}
    /\ procs = <<>>
    /\ users = {2}

NextCounts ==
    \/ Construct
    \/ GetCategoryCounts
    \/ GetTopCategories
    \/ GetResolutionRate
    \/ GetSummaryStatistics

SpecCounts == InitCounts /\ [][NextCounts]_vars

-----------------------------------------------------------------------------
(* Claims about the analyzer *)

BadCreated(data) == {i \in DOMAIN data : data[i].created_at.kind = "bad"}
DatedRecords(data) == {i \in DOMAIN data : data[i].created_at.kind \in {"full", "date"}}

\* C1: for every record collection, also one holding records with an
\* unparseable or missing created_at, the analyzer loads it and
\* get_total_grievances() is the number of records of the collection.
C1_TotalIsInputLength ==
    analyzer # "none" =>
        /\ analyzer = "ok"
        /\ get_total_grievances(df) = Len(file)

\* C2: the values of get_status_counts() sum to get_total_grievances().
C2_StatusCountsSumToTotal ==
    analyzer = "ok" =>
        SumValues(get_status_counts(df)) = get_total_grievances(df)

\* get_status_counts() was called on a table with two statuses and an undated row.
C2_Witness ==
    /\ analyzer = "ok"
    /\ seen.op = "status"
    /\ Cardinality(DOMAIN seen.result) = 2
    /\ \E i \in DOMAIN df : df[i].created_at.kind = "nat"

RowSum(m, c) == SumOver(m, {p \in DOMAIN m : p[1] = c})
ColumnSum(m, st) == SumOver(m, {p \in DOMAIN m : p[2] = st})

\* C3: every row sum of get_category_status_matrix() is that category's count
\* in get_category_counts(), every column sum that status's count in
\* get_status_counts().
C3_MatrixSumsMatchCounts ==
    (analyzer = "ok" /\ df # <<>>) =>
        LET m == get_category_status_matrix(df)
            byCategory == get_category_counts(df)
            byStatus == get_status_counts(df)
        IN  /\ DOMAIN m = (DOMAIN byCategory) \X (DOMAIN byStatus)
            /\ \A c \in DOMAIN byCategory : RowSum(m, c) = byCategory[c]
            /\ \A st \in DOMAIN byStatus : ColumnSum(m, st) = byStatus[st]

\* The matrix was asked of a table with two categories, two statuses, an
\* undated row and a pair of category and status that no row has.
C3_Witness ==
    /\ analyzer = "ok"
    /\ seen.op = "matrix"
    /\ Cardinality(DOMAIN seen.result) = 4
    /\ \E p \in DOMAIN seen.result : seen.result[p] = 0
    /\ \E i \in DOMAIN df : df[i].created_at.kind = "nat"

\* C4: one record with an unparseable created_at never makes loading or an
\* aggregation raise; it is left out of get_monthly_trend() and still counted
\* by the total and by the status and category counts, the other records
\* counting as they would without it.
C4_BadDateIsIsolated ==
    (analyzer # "none" /\ Cardinality(BadCreated(file)) = 1) =>
        /\ analyzer = "ok"
        /\ get_total_grievances(df) = Len(file)
        /\ SumValues(get_status_counts(df)) = Len(file)
        /\ SumValues(get_category_counts(df)) = Len(file)
        /\ SumValues(get_monthly_trend(df)) = Cardinality(DatedRecords(file))

\* The rows the mean is claimed to run over: Resolved, with a valid created_at
\* and a valid resolved_at.
Qualifies(row) ==
    /\ row.status = "Resolved"
    /\ row.created_at.kind = "ts"
    /\ ParseCell(row.resolved_at).kind = "ts"

ClaimedAverage(d) ==
    LET rows == SelectSeq(d, Qualifies)
    IN  IF rows = <<>> THEN Num(0, 1) ELSE Num(SumDays(rows), Len(rows))

\* C5: get_average_resolution_time() is the mean of resolved_at - created_at,
\* in days, over exactly the Resolved records with both timestamps valid, and
\* 0.0 when there is no such record.
C5_AverageOverValidResolved ==
    analyzer = "ok" =>
        \A strictFormat \in BOOLEAN :
            get_average_resolution_time(df, strictFormat) = ClaimedAverage(df)

\* C6: get_resolution_rate() is a number in [0.0, 100.0], and 0.0, not a
\* division by zero, for the empty collection.
C6_RateInRange ==
    analyzer = "ok" =>
        LET r == get_resolution_rate(df)
        IN  /\ r.kind = "num"
            /\ r.den > 0
            /\ 0 <= r.num
            /\ r.num <= 100 * r.den
            /\ (file = <<>> => r.num = 0)

\* get_resolution_rate() was called on the empty collection.
C6_Witness ==
    /\ analyzer = "ok"
    /\ file = <<>>
    /\ seen.op = "rate"
    /\ seen.result = Num(0, 1)

\* C7: two reports produced from the same loaded records, at any two moments,
\* are the same text.
C7_ReportsIdentical ==
    \A i, j \in DOMAIN reports : reports[i] = reports[j]

\* C8: an aggregation called again on the same analyzer returns what it
\* returned before, whatever was called in between, and no aggregation call
\* changes the loaded table.
C8_AggregationsArePure ==
    [][ (analyzer = "ok" /\ analyzer' = "ok") =>
            /\ df' = df
            /\ (seen'.op = seen.op /\ seen'.n = seen.n) => seen'.result = seen.result
      ]_vars

\* get_average_resolution_time() has returned a mean of whole days over a
\* Resolved row whose resolved_at, a string in the table, it had to parse.
C8_Witness ==
    /\ analyzer = "ok"
    /\ seen.op = "average"
    /\ seen.result.kind = "num"
    /\ seen.result.num > 0
    /\ \E i \in DOMAIN df : df[i].resolved_at.kind = "full"

\* The categories of the input, and how often each occurs in it.
DistinctCategories == {file[i].category : i \in DOMAIN file}
Occurrences(c) == Cardinality({i \in DOMAIN file : file[i].category = c})

\* C13: for every n >= 0 and every input, get_top_categories(n) returns
\* exactly min(n, number of distinct categories) (category, count) pairs,
\* each count the one get_category_counts() reports for that category, the
\* counts never increasing along the list.
C13_TopCategoriesShape ==
    analyzer = "ok" =>
        \A n \in 0..TopN :
            LET top == get_top_categories(df, n, stableSort)
                counts == get_category_counts(df)
            IN  /\ Len(top) = Min(n, Cardinality(DistinctCategories))
                /\ \A k \in DOMAIN top :
                        /\ top[k][1] \in DOMAIN counts
                        /\ top[k][2] = counts[top[k][1]]
                        /\ top[k][2] = Occurrences(top[k][1])
                /\ \A k \in 1..(Len(top) - 1) : top[k][2] >= top[k + 1][2]

\* get_top_categories(3) has returned the two categories of a file, the one
\* seen later first because it occurs more often.
C13_Witness ==
    /\ seen.op = "top"
    /\ seen.n = TopN
    /\ Len(seen.result) = 2
    /\ seen.result[1][2] > seen.result[2][2]
    /\ file[1].category = seen.result[2][1]

\* The record of the input where category c is first seen.
FirstInFile(c) ==
    CHOOSE i \in DOMAIN file :
        file[i].category = c /\ \A j \in 1..(i - 1) : file[j].category # c

MonthNamed(raw) ==
    IF raw.kind = "full" THEN MonthOf(raw.val) ELSE MonthOf(raw.val * SecondsPerDay)

\* C15: get_monthly_trend() maps each month "YYYY-MM" to the number of
\* records created in it; only months with at least one dated record are
\* keys (no entry is zero), and the values sum to the number of records with
\* a valid created_at, which is at most the total.
C15_MonthlyTrendCountsDated ==
    analyzer = "ok" =>
        LET trend == get_monthly_trend(df)
            dated == DatedRecords(file)
        IN  /\ DOMAIN trend = {MonthNamed(file[i].created_at) : i \in dated}
            /\ \A m \in DOMAIN trend :
                    /\ trend[m] = Cardinality({i \in dated :
                                        MonthNamed(file[i].created_at) = m})
                    /\ trend[m] >= 1
            /\ SumValues(trend) = Cardinality(dated)
            /\ SumValues(trend) <= get_total_grievances(df)

\* get_monthly_trend() has returned the one month of a file whose other
\* record has no created_at.
C15_Witness ==
    /\ seen.op = "monthly"
    /\ Len(file) = 2
    /\ Cardinality(DatedRecords(file)) = 1
    /\ Cardinality(DOMAIN seen.result) = 1
    /\ SumValues(seen.result) = 1

\* The statuses of the input.
DistinctStatuses == {file[i].status : i \in DOMAIN file}

\* C16: get_category_status_matrix() has one cell for every pair of a
\* category that occurs and a status that occurs; each cell is the number of
\* records with exactly that category and status, and is 0 for a pair of an
\* occurring category and an occurring status that no record has.
C16_MatrixCellPerObservedPair ==
    (analyzer = "ok" /\ file # <<>>) =>
        LET m == get_category_status_matrix(df)
        IN  /\ m # NoMatrix
            /\ DOMAIN m = DistinctCategories \X DistinctStatuses
            /\ \A p \in DOMAIN m :
                    m[p] = Cardinality({i \in DOMAIN file :
                                /\ file[i].category = p[1]
                                /\ file[i].status = p[2]})

\* The matrix was returned for a file whose two records differ in category
\* and in status: two cells are 1 and the two crossed ones are 0.
C16_Witness ==
    /\ seen.op = "matrix"
    /\ Len(file) = 2
    /\ Cardinality(DOMAIN seen.result) = 4
    /\ Cardinality({p \in DOMAIN seen.result : seen.result[p] = 0}) = 2

\* The report of an empty table: the heading, the overview with its three
\* zeros, and the three section headings with nothing under them.
IsEmptyReport(r) ==
    /\ Len(r) = 12
    /\ r[5] = Line("\n--- OVERVIEW ---", "", 0)
    /\ r[6] = Line("Total Grievances: ", "", 0)
    /\ r[7] = Line("Pending: ", "", 0)
    /\ r[8] = Line("Resolution Rate: %", "", 0)
    /\ r[9] = Line("\n--- STATUS BREAKDOWN ---", "", 0)
    /\ r[10] = Line("\n--- CATEGORY BREAKDOWN ---", "", 0)
    /\ r[11] = Line("\n--- TOP CATEGORIES ---", "", 0)

\* C17: an empty collection, and a data file that is missing or is no JSON
\* (which loads as empty), is not an error: the total and the pending count
\* are 0, the resolution rate and the average resolution time 0.0, the
\* status, category and monthly mappings empty, the top categories an empty
\* list, and generate_report() still returns a report.
C17_EmptyIsNotAnError ==
    /\ (analyzer # "none" /\ (fileState # "json" \/ file = <<>>)) =>
            analyzer = "ok" /\ df = <<>>
    /\ (analyzer = "ok" /\ df = <<>>) =>
            /\ get_total_grievances(df) = 0
            /\ get_pending_count(df) = 0
            /\ get_resolution_rate(df) = Num(0, 1)
            /\ \A strictFormat \in BOOLEAN :
                    get_average_resolution_time(df, strictFormat) = Num(0, 1)
            /\ get_status_counts(df) = <<>>
            /\ get_category_counts(df) = <<>>
            /\ get_monthly_trend(df) = <<>>
            /\ \A n \in 0..TopN : get_top_categories(df, n, stableSort) = <<>>
            /\ get_summary_statistics(df, stableSort).resolution_rate = 0
            /\ IsEmptyReport(generate_report(df, clock, stableSort))

\* The analyzer was constructed with no data file on disk and has returned
\* 0.0 as the average resolution time.
C17_Witness ==
    /\ fileState = "missing"
    /\ analyzer = "ok"
    /\ seen.op = "average"
    /\ seen.result = Num(0, 1)

\* The lines of report r that carry the text.
LinesWith(r, text) == {i \in DOMAIN r : r[i].text = text}

\* C19: generate_report() emits its sections in one fixed order: the
\* overview (total, pending, resolution rate), the status breakdown, the
\* category breakdown, the top categories, and a monthly trend section, where
\* there is one, last; no section is left out or moved depending on the data.
C19_SectionsInFixedOrder ==
    \A n \in DOMAIN reports :
        LET r == reports[n]
            overview == LinesWith(r, "\n--- OVERVIEW ---")
            status == LinesWith(r, "\n--- STATUS BREAKDOWN ---")
            category == LinesWith(r, "\n--- CATEGORY BREAKDOWN ---")
            top == LinesWith(r, "\n--- TOP CATEGORIES ---")
            monthly == LinesWith(r, "\n--- MONTHLY TREND ---")
        IN  /\ overview = {5}
            /\ r[6].text = "Total Grievances: "
            /\ r[7].text = "Pending: "
            /\ r[8].text = "Resolution Rate: %"
            /\ status = {9}
            /\ \E c \in 10..Len(r) : \E t \in (c + 1)..Len(r) :
                    /\ category = {c}
                    /\ top = {t}
                    /\ \A i \in 10..(c - 1) : r[i].text = "  : " /\ r[i].key \in Statuses
                    /\ \A i \in (c + 1)..(t - 1) :
                            r[i].text = "  : " /\ r[i].key \in Categories
                    /\ \A i \in (t + 1)..(Len(r) - 1) :
                            r[i].text \in {"  . : ", "\n--- MONTHLY TREND ---"}
                    /\ \A m \in monthly : m > t

\* Reports of different shapes were returned: one of a table with two
\* statuses and two categories is on record.
C19_Witness ==
    \E n \in DOMAIN reports :
        /\ Len(reports[n]) = 18
        /\ reports[n][10].key = "Pending"
        /\ reports[n][11].key = "Resolved"

\* C20: for every non-empty input get_resolution_rate() returns
\* resolved / total * 100 rounded to two decimals (66.67 for 2 resolved of
\* 3), and the resolution_rate of get_summary_statistics() is that same
\* value.
C20_RateIsRoundedToTwoDecimals ==
    (analyzer = "ok" /\ df # <<>>) =>
        LET rate == get_resolution_rate(df)
            resolved == Cardinality({i \in DOMAIN file : file[i].status = "Resolved"})
            rounded == Round2(Num(resolved * 100, Len(file)))
        IN  /\ rate.kind = "num"
            /\ rate.num * 100 = rounded * rate.den
            /\ get_summary_statistics(df, stableSort).resolution_rate * rate.den
                    = rate.num * 100

-----------------------------------------------------------------------------
(* models/record.py and models/grievance.py: one grievance, as the object   *)
(* in memory and as the dict written to the store                           *)

STATUS_OPTIONS == {"Pending", "In Progress", "Resolved", "Rejected"}

\* A status a caller may pass that is no status of the system.
StatusArguments == STATUS_OPTIONS \cup {"Closed"}

None == [kind |-> "none", val |-> 0]          \* _resolved_at = None
Dt(t) == [kind |-> "dt", val |-> t]           \* a datetime, in ticks

\* datetime.strptime with "%Y-%m-%d %H:%M:%S", then with "%Y-%m-%d": the
\* datetime, or None where both raise ValueError.
strptime(raw) ==
    CASE raw.kind = "full" -> Dt(raw.val * TicksPerSec)
      [] raw.kind = "date" -> Dt(raw.val * SecondsPerDay * TicksPerSec)
      [] OTHER -> None

\* data.get(key) is truthy: the key is there and is not "".
Truthy(raw) == raw.kind \notin {"absent", "empty"}

\* The users who submit: user 1 is the default admin, students follow.
Students == {2, 3}

\* The arguments of Grievance(...) for grievance id, submitted by student
\* sid under a category; the name goes with the student, and the description
\* is some text of ten characters or more.
Arguments(id, sid, category) ==
    [grievance_id |-> id, student_id |-> sid,
     student_name |-> IF sid = 2 THEN "Asha" ELSE "Ravi",
     category |-> category, description |-> "The lab is closed."]

\* Grievance(...): Record.__init__ reads the clock twice.
NewGrievance(args, now1, now2) ==
    [state |-> "obj",
     grievance_id |-> args.grievance_id, student_id |-> args.student_id,
     student_name |-> args.student_name, category |-> args.category,
     description |-> args.description,
     status |-> "Pending", response |-> "",
     created_at |-> Dt(now1), updated_at |-> Dt(now2), resolved_at |-> None]

\* The constructor arguments from_dict takes from a dict.
ArgumentsOf(data) ==
    [grievance_id |-> data.id, student_id |-> data.student_id,
     student_name |-> data.student_name, category |-> data.category,
     description |-> data.description]

\* update_status that stamps resolved_at on every status it accepts.
update_status_always_stamping(g, new_status, now1, now2) ==
    IF new_status \in STATUS_OPTIONS
    THEN [g EXCEPT !.status = new_status,
                   !.updated_at = Dt(now1),
                   !.resolved_at = Dt(now2)]
    ELSE g

\* update_status without the test against STATUS_OPTIONS.
update_status_unchecked(g, new_status, now1, now2) ==
    [g EXCEPT !.status = new_status,
              !.updated_at = Dt(now1),
              !.resolved_at = IF new_status = "Resolved" THEN Dt(now2) ELSE @]

\* update_status: the object after the call (the call returns whether
\* new_status is a status).  update_timestamp reads the clock, then the
\* Resolved branch reads it again.
update_status(g, new_status, now1, now2) ==
    IF new_status \in STATUS_OPTIONS
    THEN [g EXCEPT !.status = new_status,
                   !.updated_at = Dt(now1),
                   !.resolved_at = IF new_status = "Resolved" THEN Dt(now2) ELSE @]
    ELSE g

\* What update_status returns.
update_status_returns(new_status) == new_status \in STATUS_OPTIONS

\* is_pending
is_pending(g) == g.status = "Pending"

\* assign_grievance without the is_pending test.
assign_grievance_unchecked(g, now1, now2) ==
    update_status(g, "In Progress", now1, now2)

\* Admin.assign_grievance: the grievance after the call (the call returns
\* is_pending of the grievance before).
assign_grievance(g, now1, now2) ==
    IF is_pending(g) THEN update_status(g, "In Progress", now1, now2) ELSE g

\* add_response: the response is set and update_timestamp reads the clock.
add_response(g, response, now) ==
    [g EXCEPT !.response = response, !.updated_at = Dt(now)]

\* Grievance.to_dict over Record.to_dict.
to_dict(g) ==
    [state |-> "dict",
     id |-> g.grievance_id, student_id |-> g.student_id,
     student_name |-> g.student_name, category |-> g.category,
     description |-> g.description,
     status |-> g.status, response |-> g.response,
     created_at |-> Full(strftime(g.created_at.val)),
     updated_at |-> Full(strftime(g.updated_at.val)),
     resolved_at |-> IF g.resolved_at.kind = "dt"
                     THEN Full(strftime(g.resolved_at.val)) ELSE Empty]

\* from_dict that restores resolved_at and updated_at and leaves created_at
\* as the constructor set it.
from_dict_keeping_new_created_at(data, now1, now2) ==
    LET fresh == NewGrievance(ArgumentsOf(data), now1, now2)
        resolved == strptime(data.resolved_at)
        updated == strptime(data.updated_at)
    IN  [fresh EXCEPT
            !.status = data.status,
            !.response = data.response,
            !.resolved_at = IF Truthy(data.resolved_at) /\ resolved # None
                            THEN resolved ELSE @,
            !.updated_at = IF Truthy(data.updated_at) /\ updated # None
                           THEN updated ELSE @]

\* Grievance.from_dict: a new object, then every field the dict gives; a
\* timestamp that is missing, "" or in neither format leaves what the
\* constructor set.
from_dict(data, now1, now2) ==
    LET fresh == NewGrievance(ArgumentsOf(data), now1, now2)
        resolved == strptime(data.resolved_at)
        created == strptime(data.created_at)
        updated == strptime(data.updated_at)
    IN  [fresh EXCEPT
            !.status = data.status,
            !.response = data.response,
            !.resolved_at = IF Truthy(data.resolved_at) /\ resolved # None
                            THEN resolved ELSE @,
            !.created_at = IF Truthy(data.created_at) /\ created # None
                           THEN created ELSE @,
            !.updated_at = IF Truthy(data.updated_at) /\ updated # None
                           THEN updated ELSE @]

\* The dict student.submit_grievance builds without a Grievance object.
SubmittedDict(args, now) ==
    [state |-> "dict",
     id |-> args.grievance_id, student_id |-> args.student_id,
     student_name |-> args.student_name, category |-> args.category,
     description |-> args.description,
     status |-> "Pending", response |-> "",
     created_at |-> Full(strftime(now)), updated_at |-> Empty, resolved_at |-> Empty]

InitGrievance ==
    /\ fileState = "json"
    /\ file = <<>>
    /\ stableSort = TRUE
    /\ analyzer = "none"
    /\ df = <<>>
    /\ seen = NoCall
    /\ clock = 0
    /\ reports = <<>>
    /\ obj = NoObj
    /\ stored = NoDict
    /\ store = <<>>
    /\ request = Idle
    /\ csv = <<>>
    /\ faults = 0
    /\ last = NoLast
    /\ issued = {}
    /\ procs = <<>>
    /\ users = {2}

\* Two readings of a clock that does not go back: now and a later now.
Later == {t \in clock..MaxClock : t <= clock + 1}

\* app.py submit_grievance: Grievance(...) in memory.
Create ==
    /\ obj = NoObj
    /\ stored = NoDict
    /\ \E now2 \in Later :
          /\ obj' = NewGrievance(Arguments(1, 2, "Academic"), clock, now2)
          /\ clock' = now2
    /\ UNCHANGED <<fileState, file, stableSort, analyzer, df, seen, reports, stored, store, request, csv, faults, last, issued, procs, users>>

\* student.py submit_grievance: the dict goes to the store directly.
Submit ==
    /\ obj = NoObj
    /\ stored = NoDict
    /\ stored' = SubmittedDict(Arguments(1, 2, "Academic"), clock)
    /\ UNCHANGED <<fileState, file, stableSort, analyzer, df, seen, clock, reports, obj, store, request, csv, faults, last, issued, procs, users>>

UpdateStatus ==
    /\ obj # NoObj
    /\ \E new_status \in StatusArguments, now2 \in Later :
          /\ obj' = update_status(obj, new_status, clock, now2)
          /\ clock' = IF new_status \in STATUS_OPTIONS THEN now2 ELSE clock
          /\ last' = [op |-> "update_status", arg |-> new_status,
                      result |-> update_status_returns(new_status)]
    /\ UNCHANGED <<fileState, file, stableSort, analyzer, df, seen, reports, stored, store, request, csv, faults, issued, procs, users>>

\* The responses an admin writes.
Responses == {"We are looking into it."}

\* Grievance.add_response, which returns nothing.
AddResponse ==
    /\ obj # NoObj
    /\ \E response \in Responses :
          /\ obj' = add_response(obj, response, clock)
          /\ last' = [op |-> "add_response", arg |-> response, result |-> "None"]
    /\ UNCHANGED <<fileState, file, stableSort, analyzer, df, seen, clock, reports, stored, store, request, csv, faults, issued, procs, users>>

\* Admin.assign_grievance on the grievance.
AssignGrievance ==
    /\ obj # NoObj
    /\ \E now2 \in Later :
          /\ obj' = assign_grievance(obj, clock, now2)
          /\ clock' = IF is_pending(obj) THEN now2 ELSE clock
          /\ last' = [op |-> "assign_grievance", arg |-> obj.status,
                      result |-> is_pending(obj)]
    /\ UNCHANGED <<fileState, file, stableSort, analyzer, df, seen, reports, stored, store, request, csv, faults, issued, procs, users>>

\* The object is written to the store.
ToDict ==
    /\ obj # NoObj
    /\ stored' = to_dict(obj)
    /\ UNCHANGED <<fileState, file, stableSort, analyzer, df, seen, clock, reports, obj, store, request, csv, faults, last, issued, procs, users>>

\* The stored dict is read back into an object.
FromDict ==
    /\ stored # NoDict
    /\ \E now2 \in Later :
          /\ obj' = from_dict(stored, clock, now2)
          /\ clock' = now2
    /\ UNCHANGED <<fileState, file, stableSort, analyzer, df, seen, reports, stored, store, request, csv, faults, last, issued, procs, users>>

NextGrievance ==
    \/ Create
    \/ Submit
    \/ UpdateStatus
    \/ AddResponse
    \/ AssignGrievance
    \/ ToDict
    \/ FromDict
    \/ Tick

SpecGrievance == InitGrievance /\ [][NextGrievance]_vars

\* The grievance dicts a store can hold for grievance 1: what the handlers
\* wrote, or what was put into grievances.json by hand or by an import.
\* created_at is "", "bad-date", "2026-01-01 00:00:00" or "2026-01-01".
StoredDicts ==
    { [SubmittedDict(Arguments(1, 2, "Academic"), 0) EXCEPT
            !.status = status, !.created_at = created, !.updated_at = updated,
            !.resolved_at = IF status = "Resolved" THEN Full(0) ELSE Empty] :
        status \in {"Pending", "Resolved"},
        created \in {Empty, Bad, Full(0), DateOnly(0)},
        updated \in {Empty, Full(0)} }

\* A grievance is in the store; the clock shows a later second.
InitRewrite ==
    /\ fileState = "json"
    /\ file = <<>>
    /\ stableSort = TRUE
    /\ analyzer = "none"
    /\ df = <<>>
    /\ seen = NoCall
    /\ clock = TicksPerSec
    /\ reports = <<>>
    /\ obj = NoObj
    /\ stored \in StoredDicts
    /\ store = <<>>
    /\ request = Idle
    /\ csv = <<>>
    /\ faults = 0
    /\ last = NoLast
    /\ issued = {}
    /\ procs = <<>>
    /\ users = {2}

\* The stored grievance is read into an object, updated and written back.
NextRewrite ==
    \/ FromDict
    \/ UpdateStatus
    \/ AddResponse
    \/ ToDict
    \/ Tick

SpecRewrite == InitRewrite /\ [][NextRewrite]_vars

-----------------------------------------------------------------------------
(* Claims about the grievance record *)

\* C9: under a clock that does not go back, whatever grievances are created,
\* updated with update_status and reloaded through to_dict and from_dict,
\* a grievance that has a resolved_at has resolved_at >= created_at.
C9_ResolvedNotBeforeCreated ==
    /\ (obj # NoObj /\ obj.resolved_at # None) =>
            obj.resolved_at.val >= obj.created_at.val
    /\ (stored # NoDict /\ stored.resolved_at # Empty) =>
            /\ stored.resolved_at.kind = "full"
            /\ stored.created_at.kind = "full"
            /\ stored.resolved_at.val >= stored.created_at.val

\* The dict student.submit_grievance wrote (its updated_at is "") was read
\* back with from_dict, which restored its created_at, and the object was
\* resolved at a later tick.
C9_Witness ==
    /\ stored # NoDict
    /\ stored.updated_at = Empty
    /\ obj # NoObj
    /\ obj.resolved_at # None
    /\ obj.created_at = strptime(stored.created_at)
    /\ obj.resolved_at.val > obj.created_at.val

\* C10: resolved_at is there only while the status is Resolved: a grievance
\* that is Pending, In Progress or Rejected has no resolved_at, in the object
\* and in the dict to_dict gives.
C10_ResolvedAtOnlyWhileResolved ==
    /\ (obj # NoObj /\ obj.status # "Resolved") => obj.resolved_at = None
    /\ (stored # NoDict /\ stored.status # "Resolved") => stored.resolved_at = Empty

\* C12: whatever Grievance constructions and update_status calls are made,
\* with arguments that are statuses and arguments that are not, the status
\* of a grievance is always one of Pending, In Progress, Resolved, Rejected,
\* and a grievance that has just been constructed is Pending.
C12_StatusIsAlwaysAnOption ==
    /\ [](obj # NoObj => obj.status \in STATUS_OPTIONS)
    /\ [][(obj = NoObj /\ stored = NoDict /\ obj' # NoObj) =>
                obj'.status = "Pending"]_vars

\* update_status has moved a grievance to a status only it can set.
C12_Witness ==
    /\ obj # NoObj
    /\ obj.status \in {"In Progress", "Rejected"}

\* C27: update_status with a value that is not in STATUS_OPTIONS returns
\* False and leaves status, updated_at and resolved_at as they were; with a
\* value that is in STATUS_OPTIONS it returns True, sets the status,
\* refreshes updated_at to the time of the call, and sets resolved_at to the
\* time of the call exactly when the new status is Resolved.
C27_UpdateStatusChecksItsArgument ==
    [][UpdateStatus =>
        LET new_status == last'.arg
        IN  IF new_status \notin STATUS_OPTIONS
            THEN /\ last'.result = FALSE
                 /\ obj'.status = obj.status
                 /\ obj'.updated_at = obj.updated_at
                 /\ obj'.resolved_at = obj.resolved_at
            ELSE /\ last'.result = TRUE
                 /\ obj'.status = new_status
                 /\ obj'.updated_at = Dt(clock)
                 /\ IF new_status = "Resolved"
                    THEN /\ obj'.resolved_at # None
                         /\ obj'.resolved_at.val \in clock..clock'
                    ELSE obj'.resolved_at = obj.resolved_at]_vars

\* A grievance that had been resolved was moved on to In Progress: the call
\* returned True and resolved_at is what it was.
C27_Witness ==
    /\ last.op = "update_status"
    /\ last.arg = "In Progress"
    /\ last.result = TRUE
    /\ obj.status = "In Progress"
    /\ obj.resolved_at # None

\* C30: Admin.assign_grievance on a Pending grievance moves it to In Progress
\* and returns True; on a grievance of any other status it returns False and
\* leaves status and timestamps as they were; so a grievance that was
\* assigned is not assigned again while it is not Pending.
C30_AssignOnlyWhilePending ==
    [][AssignGrievance =>
        IF obj.status = "Pending"
        THEN /\ last'.result = TRUE
             /\ obj'.status = "In Progress"
             /\ ~is_pending(obj')
        ELSE /\ last'.result = FALSE
             /\ obj' = obj]_vars

\* assign_grievance was refused on a grievance that is Resolved.
C30_Witness ==
    /\ last.op = "assign_grievance"
    /\ last.arg = "Resolved"
    /\ last.result = FALSE
    /\ obj.status = "Resolved"

\* C21: from_dict raises nothing on a created_at that is in neither format,
\* and the grievance it returns for such a record is undated: it carries no
\* creation time.
C21_UnparseableCreatedAtIsUndated ==
    [][FromDict =>
        (strptime(stored.created_at) = None => obj'.created_at = None)]_vars

\* C26: a grievance that is rewritten through its object form (from_dict,
\* update_status or add_response, to_dict) keeps its id, student_id,
\* student_name, category, description and creation instant, whether its
\* created_at was a full timestamp, a date, empty or unparseable.
C26_RewriteKeepsIdentityAndCreation ==
    [][ToDict =>
        /\ stored'.id = stored.id
        /\ stored'.student_id = stored.student_id
        /\ stored'.student_name = stored.student_name
        /\ stored'.category = stored.category
        /\ stored'.description = stored.description
        /\ strptime(stored'.created_at) = strptime(stored.created_at)]_vars

-----------------------------------------------------------------------------
(* file_handler.py, student.py, app.py, admin.py: the grievance store, one   *)
(* handler at a time, and the analytics request that reads it               *)

MaxStore == 2       \* grievances in the store at one time
MaxId == 3          \* highest grievance id handed out
MaxFaults == 1      \* save_grievances calls in which a file write may fail

\* max(item.get('id', 0) for item in data)
MaxIdOf(data) ==
    CHOOSE m \in {data[i].id : i \in DOMAIN data} :
        \A i \in DOMAIN data : data[i].id <= m

\* An id that counts the items of the store.
get_next_id_by_length(data) == Len(data) + 1

\* get_next_id: 1 for an empty (or missing) store, else the highest id + 1.
get_next_id(data) ==
    IF data = <<>> THEN 1 ELSE MaxIdOf(data) + 1

\* The keys of a stored grievance that the handlers and the analyzer read;
\* d is the dict of the grievance record (SubmittedDict, to_dict).
StoreDict(d) ==
    [id |-> d.id, student_id |-> d.student_id, category |-> d.category,
     status |-> d.status, created_at |-> d.created_at,
     resolved_at |-> d.resolved_at]

\* initialize_data_files() has written [] to grievances.json and the header
\* to grievances.csv; one student is logged in.
InitStore ==
    /\ fileState = "json"
    /\ file = <<>>
    /\ stableSort \in BOOLEAN
    /\ analyzer = "none"
    /\ df = <<>>
    /\ seen = NoCall
    /\ clock = 0
    /\ reports = <<>>
    /\ obj = NoObj
    /\ stored = NoDict
    /\ store = <<>>
    /\ request = Idle
    /\ csv = <<>>
    /\ faults = 0
    /\ last = NoLast
    /\ issued = {}
    /\ procs = <<>>
    /\ users = {2}

\* What can come of save_json / save_csv writing a file: the data is
\* written; open(filepath, 'w') is refused and the file stays as it was; or
\* the write breaks off after open() has emptied the file.  Either failure
\* is caught and makes the function return False.
WriteOutcomes == IF faults > 0 THEN {"written", "refused", "cut"} ELSE {"written"}

\* The rows a reader finds in a file after a write of data over old.  A file
\* cut short holds no complete JSON (load_json returns []) and no CSV row.
AfterWrite(old, data, outcome) ==
    CASE outcome = "written" -> data
      [] outcome = "refused" -> old
      [] OTHER -> <<>>

\* A call returned the pair (success, message); n is the number the message
\* names, 0 where it names none.
Returned(success, message, n) ==
    [kind |-> "return", success |-> success, message |-> message, n |-> n]

\* A call raised TypeError.
TypeError == [kind |-> "raise", success |-> FALSE, message |-> "TypeError", n |-> 0]

\* What save_grievances returns: json_ok and csv_ok.
save_grievances_returns(json, csvw) == json = "written" /\ csvw = "written"

\* save_grievances(data): save_json, then save_csv whatever came of save_json.
save_grievances(data, json, csvw) ==
    /\ store' = AfterWrite(store, data, json)
    /\ csv' = AfterWrite(csv, data, csvw)
    /\ faults' = IF save_grievances_returns(json, csvw) THEN faults ELSE faults - 1

\* What student.submit_grievance returns over the store data.
submit_grievance_returns(data, json, csvw) ==
    IF save_grievances_returns(json, csvw)
    THEN Returned(TRUE, "Grievance submitted successfully! Your Grievance ID is: ",
                  get_next_id(data))
    ELSE Returned(FALSE, "Error saving grievance.", 0)

\* student.submit_grievance: load_grievances(), the dict with
\* get_next_grievance_id(), append, save_grievances().  The id is told to
\* the student when the save succeeded.
submit_grievance(student, category, json, csvw) ==
    LET new_grievance ==
            StoreDict(SubmittedDict(Arguments(get_next_id(store), student, category),
                                    clock))
    IN  /\ save_grievances(Append(store, new_grievance), json, csvw)
        /\ issued' = IF submit_grievance_returns(store, json, csvw).success
                     THEN issued \cup {new_grievance.id} ELSE issued

SubmitGrievance ==
    /\ Len(store) < MaxStore
    /\ get_next_id(store) <= MaxId
    /\ \E student \in users, category \in Categories, json, csvw \in WriteOutcomes :
          submit_grievance(student, category, json, csvw)
    /\ UNCHANGED <<fileState, file, stableSort, analyzer, df, seen, clock, reports, obj, stored, request, last, procs, users>>

\* app.py submit_grievance: Grievance(grievance_id=get_next_grievance_id(),
\* ...), load_grievances(), append to_dict(), save_grievances(), whose result
\* is not looked at: the id is flashed to the student in any case.
web_submit_grievance(student, category, json, csvw) ==
    LET grievance_obj ==
            NewGrievance(Arguments(get_next_id(store), student, category),
                         clock, clock)
    IN  /\ save_grievances(Append(store, StoreDict(to_dict(grievance_obj))), json, csvw)
        /\ issued' = issued \cup {grievance_obj.grievance_id}

WebSubmitGrievance ==
    /\ Len(store) < MaxStore
    /\ get_next_id(store) <= MaxId
    /\ \E student \in users, category \in Categories, json, csvw \in WriteOutcomes :
          web_submit_grievance(student, category, json, csvw)
    /\ UNCHANGED <<fileState, file, stableSort, analyzer, df, seen, clock, reports, obj, stored, request, last, procs, users>>

\* The grievances with the id gid are in data.
Found(data, gid) == \E i \in DOMAIN data : data[i].id = gid

\* The position of the first grievance with the id gid.
FirstWithId(data, gid) ==
    CHOOSE k \in DOMAIN data :
        /\ data[k].id = gid
        /\ \A j \in 1..(k - 1) : data[j].id # gid

\* data without its last item, whatever i is.
PopLast(data, i) == SubSeq(data, 1, Len(data) - 1)

\* data without its item at position i: grievances.pop(i)
Pop(data, i) ==
    [k \in 1..(Len(data) - 1) |-> IF k < i THEN data[k] ELSE data[k + 1]]

\* What admin.delete_grievance returns over the store data.
delete_grievance_returns(data, gid, json, csvw) ==
    IF Found(data, gid)
    THEN IF save_grievances_returns(json, csvw)
         THEN Returned(TRUE, "Grievance # deleted successfully.", gid)
         ELSE Returned(FALSE, "Error saving changes.", 0)
    ELSE Returned(FALSE, "Grievance not found.", 0)

\* admin.delete_grievance: the first grievance with the id is popped and the
\* list saved; an id that is not there saves nothing.
delete_grievance(gid, json, csvw) ==
    /\ IF Found(store, gid)
       THEN save_grievances(Pop(store, FirstWithId(store, gid)), json, csvw)
       ELSE UNCHANGED <<store, csv, faults>>
    /\ UNCHANGED issued

DeleteGrievance ==
    /\ \E gid \in 1..MaxId, json, csvw \in WriteOutcomes :
          delete_grievance(gid, json, csvw)
    /\ UNCHANGED <<fileState, file, stableSort, analyzer, df, seen, clock, reports, obj, stored, request, last, procs, users>>

\* app.py admin_view_grievance, action 'delete': every grievance with the id
\* is filtered out; an id that is not there redirects before any action.
web_delete_grievance(gid, json, csvw) ==
    /\ IF Found(store, gid)
       THEN save_grievances(SelectSeq(store, LAMBDA g : g.id # gid), json, csvw)
       ELSE UNCHANGED <<store, csv, faults>>
    /\ UNCHANGED issued

WebDeleteGrievance ==
    /\ \E gid \in 1..MaxId, json, csvw \in WriteOutcomes :
          web_delete_grievance(gid, json, csvw)
    /\ UNCHANGED <<fileState, file, stableSort, analyzer, df, seen, clock, reports, obj, stored, request, last, procs, users>>

\* What comes of admin.update_grievance_status over the store data:
\* Grievance.update_status returns a bool, and unpacking it into
\* (success, message) raises TypeError, whatever new_status is; an id that
\* is not in the store gets past the loop to the return.
update_grievance_status_returns(data, gid, new_status) ==
    IF Found(data, gid) THEN TypeError ELSE Returned(FALSE, "Grievance not found.", 0)

\* admin.update_grievance_status and app.py admin_view_grievance, action
\* 'update_status': nothing is saved on either path.
update_grievance_status(gid, new_status) ==
    UNCHANGED <<store, csv, faults, issued>>

UpdateGrievanceStatus ==
    /\ \E gid \in 1..MaxId, new_status \in StatusArguments :
          update_grievance_status(gid, new_status)
    /\ UNCHANGED <<fileState, file, stableSort, analyzer, df, seen, clock, reports, obj, stored, request, last, procs, users>>

\* grievances.csv after sync_json_to_csv over the JSON store json and the CSV
\* rows: the CSV is rewritten from the JSON list only if that list is not
\* empty.
sync_json_to_csv(json, rows, outcome) ==
    IF json # <<>> THEN AfterWrite(rows, json, outcome) ELSE rows

SyncJsonToCsv ==
    /\ \E outcome \in WriteOutcomes :
          /\ csv' = sync_json_to_csv(store, csv, outcome)
          /\ faults' = IF store # <<>> /\ outcome # "written" THEN faults - 1 ELSE faults
    /\ UNCHANGED <<fileState, file, stableSort, analyzer, df, seen, clock, reports, obj, stored, store, request, last, issued, procs, users>>

\* initialize_data_files() at the start of the program, the data files being
\* there: nothing is created, and sync_json_to_csv() runs.
InitializeDataFiles ==
    /\ \E outcome \in WriteOutcomes :
          /\ csv' = sync_json_to_csv(store, csv, outcome)
          /\ faults' = IF store # <<>> /\ outcome # "written" THEN faults - 1 ELSE faults
    /\ UNCHANGED <<fileState, file, stableSort, analyzer, df, seen, clock, reports, obj, stored, store, request, last, issued, procs, users>>

\* The store on a disk whose writes may fail.
InitDual ==
    /\ fileState = "json"
    /\ file = <<>>
    /\ stableSort = TRUE
    /\ analyzer = "none"
    /\ df = <<>>
    /\ seen = NoCall
    /\ clock = 0
    /\ reports = <<>>
    /\ obj = NoObj
    /\ stored = NoDict
    /\ store = <<>>
    /\ request = Idle
    /\ csv = <<>>
    /\ faults = MaxFaults
    /\ last = NoLast
    /\ issued = {}
    /\ procs = <<>>
    /\ users = {2}

NextDual ==
    \/ SubmitGrievance
    \/ WebSubmitGrievance
    \/ DeleteGrievance
    \/ WebDeleteGrievance
    \/ SyncJsonToCsv
    \/ InitializeDataFiles

SpecDual == InitDual /\ [][NextDual]_vars

MaxProcs == 2       \* submissions that run at the same time

\* A submission that has not begun.
NoProc == [pc |-> "idle", kind |-> "none", category |-> "none", id |-> 0,
           grievances |-> <<>>]

\* The student who is served by submission p: user 1 is the admin.
StudentOf(p) == p + 1

\* The store with the submissions not begun; every student is logged in.
InitRace ==
    /\ fileState = "json"
    /\ file = <<>>
    /\ stableSort = TRUE
    /\ analyzer = "none"
    /\ df = <<>>
    /\ seen = NoCall
    /\ clock = 0
    /\ reports = <<>>
    /\ obj = NoObj
    /\ stored = NoDict
    /\ store = <<>>
    /\ request = Idle
    /\ csv = <<>>
    /\ faults = 0
    /\ last = NoLast
    /\ issued = {}
    /\ procs = [p \in 1..MaxProcs |-> NoProc]
    /\ users = {StudentOf(p) : p \in 1..MaxProcs}

\* A submission begins, in the menu program (student.submit_grievance:
\* load_grievances() first, then get_next_grievance_id()) or in the web
\* application (app.py submit_grievance: get_next_grievance_id() first, then
\* load_grievances()).
BeginSubmit ==
    /\ \E p \in DOMAIN procs, kind \in {"cli", "web"}, category \in Categories :
          /\ procs[p].pc = "idle"
          /\ procs' = [procs EXCEPT ![p] =
                          [NoProc EXCEPT !.pc = IF kind = "cli" THEN "load" ELSE "id",
                                         !.kind = kind, !.category = category]]
    /\ UNCHANGED <<fileState, file, stableSort, analyzer, df, seen, clock, reports, obj, stored, store, request, csv, faults, last, issued, users>>

\* get_next_grievance_id(): the store is read and the id computed.
ReadNextId ==
    /\ \E p \in DOMAIN procs :
          /\ procs[p].pc = "id"
          /\ get_next_id(store) <= MaxId
          /\ procs' = [procs EXCEPT ![p].id = get_next_id(store),
                                    ![p].pc = IF procs[p].kind = "cli" THEN "save"
                                              ELSE "load"]
    /\ UNCHANGED <<fileState, file, stableSort, analyzer, df, seen, clock, reports, obj, stored, store, request, csv, faults, last, issued, users>>

\* grievances = load_grievances()
LoadGrievances ==
    /\ \E p \in DOMAIN procs :
          /\ procs[p].pc = "load"
          /\ procs' = [procs EXCEPT ![p].grievances = store,
                                    ![p].pc = IF procs[p].kind = "cli" THEN "id"
                                              ELSE "save"]
    /\ UNCHANGED <<fileState, file, stableSort, analyzer, df, seen, clock, reports, obj, stored, store, request, csv, faults, last, issued, users>>

\* The dict a submission appends: new_grievance of the menu program,
\* grievance_obj.to_dict() of the web application.
NewDictOf(p) ==
    LET args == Arguments(procs[p].id, StudentOf(p), procs[p].category)
    IN  StoreDict(IF procs[p].kind = "cli" THEN SubmittedDict(args, clock)
                  ELSE to_dict(NewGrievance(args, clock, clock)))

\* grievances.append(...); save_grievances(grievances): the list that was
\* loaded, with the new dict, replaces the store, and the student is told
\* the id.
AppendAndSave ==
    /\ \E p \in DOMAIN procs :
          /\ procs[p].pc = "save"
          /\ save_grievances(Append(procs[p].grievances, NewDictOf(p)),
                             "written", "written")
          /\ issued' = issued \cup {procs[p].id}
          /\ procs' = [procs EXCEPT ![p].pc = "done"]
    /\ UNCHANGED <<fileState, file, stableSort, analyzer, df, seen, clock, reports, obj, stored, request, last, users>>

NextRace ==
    \/ BeginSubmit
    \/ ReadNextId
    \/ LoadGrievances
    \/ AppendAndSave

SpecRace == InitRace /\ [][NextRace]_vars

\* view_my_grievances: the grievances of the store whose student_id is the
\* caller's, in their order.
view_my_grievances(data, student_id) ==
    SelectSeq(data, LAMBDA g : g.student_id = student_id)

\* A view that shows no grievance: None, or the redirect with a message.
NotShown(message) == [shown |-> FALSE, message |-> message]

\* view_grievance_detail that returns whatever grievance has the id.
view_grievance_detail_unverified(data, grievance_id, student_id) ==
    IF Found(data, grievance_id)
    THEN data[FirstWithId(data, grievance_id)]
    ELSE NotShown("None")

\* student.view_grievance_detail: the first grievance with the id, if it is
\* the caller's; None otherwise.
view_grievance_detail(data, grievance_id, student_id) ==
    IF Found(data, grievance_id)
    THEN LET g == data[FirstWithId(data, grievance_id)]
         IN  IF g.student_id # student_id THEN NotShown("None") ELSE g
    ELSE NotShown("None")

\* app.py view_grievance for the logged-in user: the first grievance with the
\* id is rendered, unless there is none or the user is a student and the
\* grievance another student's.
view_grievance(data, gid, user) ==
    IF ~Found(data, gid) THEN NotShown("Grievance not found.")
    ELSE LET grievance == data[FirstWithId(data, gid)]
         IN  IF user.role = "student" /\ grievance.student_id # user.id
             THEN NotShown("Access denied.")
             ELSE grievance

\* session['user'] of the logged-in users: the students and the default admin.
Sessions ==
    {[id |-> student, role |-> "student"] : student \in users}
        \cup {[id |-> 1, role |-> "admin"]}

ViewMyGrievances ==
    /\ \E student \in users :
          last' = [op |-> "view_my_grievances",
                   arg |-> [grievance_id |-> 0, id |-> student, role |-> "student"],
                   result |-> view_my_grievances(store, student)]
    /\ UNCHANGED <<fileState, file, stableSort, analyzer, df, seen, clock, reports, obj, stored, store, request, csv, faults, issued, procs, users>>

ViewGrievanceDetail ==
    /\ \E grievance_id \in 1..MaxId, student \in users :
          last' = [op |-> "view_grievance_detail",
                   arg |-> [grievance_id |-> grievance_id, id |-> student,
                            role |-> "student"],
                   result |-> view_grievance_detail(store, grievance_id, student)]
    /\ UNCHANGED <<fileState, file, stableSort, analyzer, df, seen, clock, reports, obj, stored, store, request, csv, faults, issued, procs, users>>

WebViewGrievance ==
    /\ \E gid \in 1..MaxId, user \in Sessions :
          last' = [op |-> "view_grievance",
                   arg |-> [grievance_id |-> gid, id |-> user.id, role |-> user.role],
                   result |-> view_grievance(store, gid, user)]
    /\ UNCHANGED <<fileState, file, stableSort, analyzer, df, seen, clock, reports, obj, stored, store, request, csv, faults, issued, procs, users>>

\* The store with every student logged in.
InitViews ==
    /\ fileState = "json"
    /\ file = <<>>
    /\ stableSort = TRUE
    /\ analyzer = "none"
    /\ df = <<>>
    /\ seen = NoCall
    /\ clock = 0
    /\ reports = <<>>
    /\ obj = NoObj
    /\ stored = NoDict
    /\ store = <<>>
    /\ request = Idle
    /\ csv = <<>>
    /\ faults = 0
    /\ last = NoLast
    /\ issued = {}
    /\ procs = <<>>
    /\ users = Students

NextViews ==
    \/ SubmitGrievance
    \/ DeleteGrievance
    \/ ViewMyGrievances
    \/ ViewGrievanceDetail
    \/ WebViewGrievance

SpecViews == InitViews /\ [][NextViews]_vars

\* The keys of the dict get_summary_statistics builds, in the order the dict
\* display evaluates them.
SummaryFields ==
    << "total_grievances", "pending_count", "resolution_rate", "status_breakdown",
       "category_breakdown", "top_categories", "monthly_trend" >>

\* app.py admin_analytics: analyzer = GrievanceAnalyzer().  _load_data reads
\* the store once into self.df.  A read that meets a save_json in progress
\* (the file is truncated, then written) finds no complete JSON: json.load
\* raises JSONDecodeError, which leaves the empty table.
BeginAnalytics ==
    /\ request = Idle
    /\ \E torn, strictFormat \in BOOLEAN :
          request' =
            IF torn THEN [pc |-> "summary", df |-> <<>>, at |-> 1, summary |-> <<>>]
            ELSE IF LoadRaises(store, strictFormat) THEN [pc |-> "raised"]
            ELSE [pc |-> "summary", df |-> LoadedTable(store), at |-> 1,
                  summary |-> <<>>]
    /\ UNCHANGED <<fileState, file, stableSort, analyzer, df, seen, clock, reports, obj, stored, store, csv, faults, last, issued, procs, users>>

\* The next value of the summary, computed after reload_data(): from the
\* store as it is now.
SummaryStepReloading ==
    /\ request.pc = "summary"
    /\ request.at <= Len(SummaryFields)
    /\ LET field == SummaryFields[request.at]
           now_df == LoadedTable(store)
       IN  request' = [request EXCEPT
                         !.df = now_df,
                         !.summary = (field :> get_summary_statistics(now_df, stableSort)[field]) @@ @,
                         !.at = @ + 1]
    /\ UNCHANGED <<fileState, file, stableSort, analyzer, df, seen, clock, reports, obj, stored, store, csv, faults, last, issued, procs, users>>

\* summary = analyzer.get_summary_statistics(): the next value of the dict
\* is computed, by the method it calls, from the analyzer's self.df.
SummaryStep ==
    /\ request.pc = "summary"
    /\ request.at <= Len(SummaryFields)
    /\ LET field == SummaryFields[request.at]
       IN  request' = [request EXCEPT
                         !.summary = (field :> get_summary_statistics(request.df, stableSort)[field]) @@ @,
                         !.at = @ + 1]
    /\ UNCHANGED <<fileState, file, stableSort, analyzer, df, seen, clock, reports, obj, stored, store, csv, faults, last, issued, procs, users>>

\* The response is sent (or the exception reported) and the analyzer dropped.
FinishAnalytics ==
    /\ \/ request.pc = "raised"
       \/ request.pc = "summary" /\ request.at > Len(SummaryFields)
    /\ request' = Idle
    /\ UNCHANGED <<fileState, file, stableSort, analyzer, df, seen, clock, reports, obj, stored, store, csv, faults, last, issued, procs, users>>

NextStore ==
    \/ SubmitGrievance
    \/ WebSubmitGrievance
    \/ DeleteGrievance
    \/ WebDeleteGrievance
    \/ UpdateGrievanceStatus
    \/ BeginAnalytics
    \/ SummaryStep
    \/ FinishAnalytics

SpecStore == InitStore /\ [][NextStore]_vars

-----------------------------------------------------------------------------
(* Claims about the store *)

\* C11: after any sequence of submissions and deletions executed one at a
\* time, the grievances in the store have pairwise distinct ids.
C11_IdsPairwiseDistinct ==
    \A i, j \in DOMAIN store : i # j => store[i].id # store[j].id

\* A grievance was deleted from under a later one, and another was submitted
\* after that: the store skips an id.
C11_Witness ==
    /\ Len(store) = 2
    /\ store[1].id > 1
    /\ store[2].id = store[1].id + 1

\* The summary of the analytics request is complete.
SummaryReturned ==
    request.pc = "summary" /\ request.at > Len(SummaryFields)

\* C18: an analytics request builds its own analyzer snapshot, and every
\* field of the get_summary_statistics() result it gets is computed from
\* that one snapshot: the fields agree with one another even when other
\* requests submit, update or delete grievances while the summary is being
\* computed.
C18_SummaryFromOneSnapshot ==
    SummaryReturned =>
        LET s == request.summary
            CountOf(f, k) == IF k \in DOMAIN f THEN f[k] ELSE 0
        IN  /\ s = get_summary_statistics(request.df, stableSort)
            /\ SumValues(s.status_breakdown) = s.total_grievances
            /\ SumValues(s.category_breakdown) = s.total_grievances
            /\ s.pending_count = CountOf(s.status_breakdown, "Pending")
            /\ s.resolution_rate =
                    IF s.total_grievances = 0 THEN 0
                    ELSE Round2(Num(CountOf(s.status_breakdown, "Resolved") * 100,
                                    s.total_grievances))
            /\ Len(s.top_categories) = Cardinality(DOMAIN s.category_breakdown)
            /\ \A k \in DOMAIN s.top_categories :
                    s.top_categories[k][2] =
                        CountOf(s.category_breakdown, s.top_categories[k][1])
            /\ SumValues(s.monthly_trend) <= s.total_grievances

\* A summary of a non-empty snapshot is complete, and the store no longer
\* holds what the snapshot holds: other requests wrote it meanwhile.
C18_Witness ==
    /\ SummaryReturned
    /\ request.summary.total_grievances > 0
    /\ Len(store) # Len(request.df)

\* C22: admin.update_grievance_status(grievance_id, new_status) never raises
\* and always returns a (success, message) pair: success is True for an id
\* that is in the store with a status of STATUS_OPTIONS, and False for a
\* status that is none or an id that is not in the store.
C22_UpdateReturnsAPair ==
    \A gid \in 1..MaxId, new_status \in StatusArguments :
        LET result == update_grievance_status_returns(store, gid, new_status)
        IN  /\ result.kind = "return"
            /\ result.success = (Found(store, gid) /\ new_status \in STATUS_OPTIONS)

\* C25: an id that was handed out is never given to another grievance
\* later: the id of every new submission is greater than every id issued
\* before it.
C25_IdsAreNeverReused ==
    [][(SubmitGrievance \/ WebSubmitGrievance) =>
            \A id \in issued : get_next_id(store) > id]_vars

C23_SyncMakesCsvEqualJson ==
    sync_json_to_csv(store, csv, "written") = store

\* C24: when submissions run at the same time, their steps interleaved,
\* every submission that reported success is in the store, and no two of
\* them have the same id.
C24_ConcurrentSubmissionsAllStored ==
    \A p, q \in DOMAIN procs :
        procs[p].pc = "done" =>
            /\ \E i \in DOMAIN store :
                    /\ store[i].id = procs[p].id
                    /\ store[i].student_id = StudentOf(p)
            /\ (q # p /\ procs[q].pc = "done") => procs[q].id # procs[p].id

\* The grievance g was shown: the view did not return None or redirect.
IsShown(g) == g \notin {NotShown("None"), NotShown("Grievance not found."),
                        NotShown("Access denied.")}

\* C29: a student is only shown grievances that student submitted: for every
\* grievance id and every student, view_grievance_detail and the web
\* view_grievance return the grievance only if its student_id is the
\* requesting student's, and view_my_grievances returns exactly the
\* grievances of the store with that student_id.
C29_StudentsSeeOnlyTheirOwn ==
    /\ \A student \in Students, gid \in 1..MaxId :
          LET detail == view_grievance_detail(store, gid, student)
              page == view_grievance(store, gid, [id |-> student, role |-> "student"])
              mine == view_my_grievances(store, student)
          IN  /\ IsShown(detail) => detail.student_id = student /\ detail.id = gid
              /\ IsShown(page) => page.student_id = student /\ page.id = gid
              /\ \A i \in DOMAIN mine : mine[i].student_id = student
              /\ Len(mine) = Cardinality({i \in DOMAIN store :
                                            store[i].student_id = student})
    /\ (last.op \in {"view_grievance_detail", "view_grievance"}
            /\ last.arg.role = "student" /\ IsShown(last.result)) =>
          /\ last.result.student_id = last.arg.id
          /\ last.result.id = last.arg.grievance_id
    /\ last.op = "view_my_grievances" =>
          \A i \in DOMAIN last.result : last.result[i].student_id = last.arg.id

\* A student asked for a grievance that is in the store and is another
\* student's, and was shown none.
C29_Witness ==
    /\ last.op = "view_grievance_detail"
    /\ ~IsShown(last.result)
    /\ \E i \in DOMAIN store :
          /\ store[i].id = last.arg.grievance_id
          /\ store[i].student_id # last.arg.id

====
